---- MODULE Spec2Model ----
(***************************************************************************)
(* Model of src/smart_notes.py: class SmartNotesDB.                        *)
(*                                                                         *)
(*   update_all_embeddings / add_embeddings_batch   the embedding sync     *)
(*   semantic_search / fallback_text_search         the two-path search    *)
(*                                                                         *)
(* The SQLite database (tables notes, notes_fts, note_embeddings), the     *)
(* sqlite-vss extension and the OpenAI client are the environment: their   *)
(* outcomes (success, exception) are chosen nondeterministically where the *)
(* code calls them.                                                        *)
(***************************************************************************)
EXTENDS Integers, Sequences, FiniteSets, TLC

\* ------------------------------------------------------------------ bounds
MaxNotes == 12             \* largest number of rows in table notes
SmallBatch == 4            \* a batch_size passed explicitly by a caller
MaxLimit == 3              \* largest limit passed to a search
EmbeddingDimension == 2    \* self.embedding_dimension of the vss0 table
FewNotes == 2              \* largest number of notes where the notes change
TinyBatch == 1             \* the batch_size of the runs where the notes change
MaxNoteChanges == 1        \* largest number of changes to table notes

\* ------------------------------------------------------- program constants
DefaultBatchSize == 10     \* add_embeddings_batch(..., batch_size=10)

Tokens == <<"a", "b">>
Corpora == {0, 1}
Queries == {"a", "b"}
Limits == 1..MaxLimit
BatchSizes == {SmallBatch, DefaultBatchSize}
NoteIds == 1..MaxNotes

Min(a, b) == IF a < b THEN a ELSE b

\* ------------------------------------------------------------ table notes
\* Row i of table notes in corpus c (the table is written by the external
\* note manager; the code only reads it).
NoteRow(i, c) ==
    [title   |-> Tokens[((i - 1) % 2) + 1],
     content |-> Tokens[((((i - 1) \div 2) + c) % 2) + 1]]

\* SELECT id, title || ' ' || content FROM notes
NoteText(row) == row.title \o " " \o row.content

RECURSIVE SetToSortedSeq(_)
SetToSortedSeq(S) ==
    IF S = {} THEN <<>>
    ELSE LET m == CHOOSE x \in S : \A y \in S : x <= y
         IN  <<m>> \o SetToSortedSeq(S \ {m})

\* notes_data = [(row[0], row[1]) for row in rows], rows in rowid order
NotesData(nt) ==
    LET ids == SetToSortedSeq(DOMAIN nt)
    IN  [k \in 1..Len(ids) |-> <<ids[k], NoteText(nt[ids[k]])>>]

\* ------------------------------------------------------ embedding provider
\* client.embeddings.create: an opaque deterministic text -> vector map.
\* The two token codes of a text (a one-token query repeats its token).
TokenCode1(s) ==
    CASE s = "a" -> 1 [] s = "b" -> 2
      [] s = "a a" -> 1 [] s = "a b" -> 1
      [] s = "b a" -> 2 [] s = "b b" -> 2

TokenCode2(s) ==
    CASE s = "a" -> 1 [] s = "b" -> 2
      [] s = "a a" -> 1 [] s = "a b" -> 2
      [] s = "b a" -> 1 [] s = "b b" -> 2

Embed(s, d) ==
    [i \in 1..d |-> IF i % 2 = 1 THEN TokenCode1(s) ELSE TokenCode2(s)]

\* np.array(..., dtype=np.float32).tobytes(): 4 little-endian bytes per
\* component (IEEE 754 single precision of 0.0, 1.0, 2.0).
Float32Bytes(x) ==
    CASE x = 0 -> <<0, 0, 0, 0>>
      [] x = 1 -> <<0, 0, 128, 63>>
      [] x = 2 -> <<0, 0, 0, 64>>

RECURSIVE ToBytes(_)
ToBytes(v) ==
    IF v = <<>> THEN <<>> ELSE Float32Bytes(Head(v)) \o ToBytes(Tail(v))

Float32Value(b) ==
    CASE b = <<0, 0, 0, 0>> -> 0
      [] b = <<0, 0, 128, 63>> -> 1
      [] b = <<0, 0, 0, 64>> -> 2

\* the vss0 column reads a blob back as Len(blob)/4 float32 components
FromBytes(blob) ==
    [i \in 1..(Len(blob) \div 4) |-> Float32Value(SubSeq(blob, 4 * i - 3, 4 * i))]

\* The response of one provider call that did not raise: one embedding per
\* input text, in order; kind "baddim" is a model whose vectors do not have
\* the dimension of the vss0 column.
ProviderResponse(texts, kind) ==
    LET d == IF kind = "ok" THEN EmbeddingDimension ELSE EmbeddingDimension - 1
    IN  [j \in 1..Len(texts) |-> Embed(texts[j], d)]

\* ---------------------------------------------- table note_embeddings (vss0)
\* The vss0 virtual table takes a row only while the extension and the table
\* are usable by the connection and the blob has the declared dimension.
StoreAccepts(blob, avail) == avail /\ Len(blob) = 4 * EmbeddingDimension

\* The loop "for (note_id, _), embedding_data in zip(batch, response.data)":
\* the position of the first insert that raises, 0 if none does. The insert
\* at position failAt raises (I/O failure), as does one the table rejects.
FirstRaisingInsert(batch, vectors, failAt, avail) ==
    LET bad == {j \in 1..Min(Len(batch), Len(vectors)) :
                   j = failAt \/ ~StoreAccepts(ToBytes(vectors[j]), avail)}
    IN  IF bad = {} THEN 0 ELSE CHOOSE j \in bad : \A k \in bad : j <= k

\* One row of note_embeddings.
Row(id, blob) == [id |-> id, embedding |-> blob]

\* the ids of the rows of a table
StoreIds(tbl) == {r.id : r \in tbl}

\* INSERT OR IGNORE: the row that the table has for the id stays
InsertOrIgnore(tbl, id, blob) ==
    IF id \in StoreIds(tbl) THEN tbl ELSE tbl \cup {Row(id, blob)}

\* an INSERT that leaves the row of the same id in place
InsertKeepingOld(tbl, id, blob) == tbl \cup {Row(id, blob)}

\* INSERT OR REPLACE INTO note_embeddings (id, embedding) VALUES (?, ?) on
\* the table with primary key id: the row of that id, if any, gives way.
InsertOrReplace(tbl, id, blob) == {r \in tbl : r.id # id} \cup {Row(id, blob)}

\* The same loop: txn is the connection's open transaction, the statements
\* executed and not yet committed; it takes the statements of the positions
\* before the first raising insert, in order.
\* a loop that pairs the notes of the batch with the vectors in reverse order
InsertLoopReversed(txn, batch, vectors, failAt, avail) ==
    LET f == FirstRaisingInsert(batch, vectors, failAt, avail)
        n == IF f = 0 THEN Min(Len(batch), Len(vectors)) ELSE f - 1
        m == Min(Len(batch), Len(vectors))
    IN  [txn |-> txn \o [j \in 1..n |-> <<batch[j][1], ToBytes(vectors[m + 1 - j])>>],
         raised |-> f # 0]

InsertLoop(txn, batch, vectors, failAt, avail) ==
    LET f == FirstRaisingInsert(batch, vectors, failAt, avail)
        n == IF f = 0 THEN Min(Len(batch), Len(vectors)) ELSE f - 1
    IN  [txn |-> txn \o [j \in 1..n |-> <<batch[j][1], ToBytes(vectors[j])>>],
         raised |-> f # 0]

\* the statements of txn from position j on, applied to the table in order
RECURSIVE ApplyFrom(_, _, _)
ApplyFrom(tbl, txn, j) ==
    IF j > Len(txn) THEN tbl
    ELSE ApplyFrom(InsertOrReplace(tbl, txn[j][1], txn[j][2]), txn, j + 1)

\* a commit that is never made: the rows are lost when the connection closes
CommitLost(tbl, txn) == tbl

\* conn.commit(): the statements of the open transaction become the table's
\* content
Commit(tbl, txn) == ApplyFrom(tbl, txn, 1)

\* conn.rollback(): the open transaction is discarded
RollbackKeepsStatements(txn) == txn
Rollback(txn) == <<>>

\* a slice one element too long: notes[i:i + batch_size + 1]
BatchOverlapping(nd, i, b) == SubSeq(nd, i + 1, Min(i + b + 1, Len(nd)))

\* batch = notes[i:i + batch_size]
Batch(nd, i, b) == SubSeq(nd, i + 1, Min(i + b, Len(nd)))

\* texts = [text for _, text in batch]
Texts(batch) == [j \in 1..Len(batch) |-> batch[j][2]]

\* the two numbers of the "Processed batch k/N" log line
BatchNumber(i, b) == (i \div b) + 1
BatchTotal(n, b) == ((n - 1) \div b) + 1

\* ------------------------------------------------------------------- state
VARIABLES
    notes,          \* table notes: id -> [title, content]
    vssAvailable,   \* note_embeddings / vss_search usable by a connection
    embStore,       \* table note_embeddings: the set of its committed rows
    syncPc,         \* "idle", "running", "done", "raised"
    syncNotes,      \* the argument notes of add_embeddings_batch
    syncBatchSize,  \* the argument batch_size
    syncI,          \* the loop variable i
    syncTxn,        \* uncommitted statements of the sync connection
    providerCalls,  \* the input of each client.embeddings.create call
    pauses,         \* number of time.sleep(0.1) calls of the run
    logs,           \* the run's logger.info / logger.error lines
    syncReturn,     \* the values the run returned to its caller (None: <<>>)
    syncError,      \* the exception that reached the caller of the run
    batchOutcomes,  \* history: per loop iteration, what happened
    committedRows,  \* history: rows made durable by the run's commits
    srchPc,         \* "idle", "vector", "fallback", "returned", "raised"
    srchQuery, srchLimit,
    srchBlob,       \* the query embedding's bytes
    srchHits,       \* the (id, distance) rows vss_search produced, in order
    srchResult,     \* the list returned to the caller
    srchError,      \* the exception that reached the caller
    srchTrace,      \* history: the calls the search made and their outcome
    srchCapAtStart, \* history: vssAvailable when the search was called
    srchCapDown,    \* history: vssAvailable was FALSE all through the search
    conns,          \* the connections that are open (sqlite3.connect .. close)
    sawMismatch,    \* history: a batch of the run got vectors of another dimension
    prevRun,        \* history: how the run just before this run went, if there was one
    noteChanges,    \* number of changes the note manager made to table notes
    runs,           \* the runs of two threads that sync at the same time
    dbLock,         \* the connection holding the database's write lock
    commitLog       \* history: the commits of the concurrent runs, in order

syncVars == <<syncPc, syncNotes, syncBatchSize, syncI, syncTxn, providerCalls,
              pauses, logs, syncReturn, syncError, batchOutcomes, committedRows,
              sawMismatch, prevRun>>
srchVars == <<srchPc, srchQuery, srchLimit, srchBlob, srchHits, srchResult,
              srchError, srchTrace, srchCapAtStart, srchCapDown>>
vars == <<notes, vssAvailable, embStore, syncPc, syncNotes, syncBatchSize,
          syncI, syncTxn, providerCalls, pauses, logs, syncReturn, syncError,
          batchOutcomes, committedRows, srchPc, srchQuery, srchLimit, srchBlob,
          srchHits, srchResult, srchError, srchTrace, srchCapAtStart,
          srchCapDown, conns, sawMismatch, prevRun, noteChanges, runs,
          dbLock, commitLog>>
concVars == <<runs, dbLock, commitLog>>

NoError == [type |-> "none", origin |-> "none"]

\* the two threads of the concurrent runs
Threads == {"A", "B"}

\* a thread that is not in add_embeddings_batch
IdleRun == [pc |-> "idle", notes |-> <<>>, b |-> DefaultBatchSize, i |-> 0,
            vectors |-> <<>>, txn |-> <<>>, outcomes |-> <<>>]

\* a release that is not in a finally clause: skipped when the block raises
ReleaseOnReturnOnly(cs, c, exit) == IF exit = "exception" THEN cs ELSE cs \ {c}

\* get_connection(): "finally: conn.close()" closes the connection whether
\* the with-block ends by return or by exception
Release(cs, c, exit) == cs \ {c}

\* get_connection(): conn = sqlite3.connect(self.db_path); yield conn
Acquire(cs, c) == cs \cup {c}

\* some batch of the run failed
HasFailed(outcomes) == \E k \in 1..Len(outcomes) : outcomes[k] = "failed"

SyncIdle ==
    /\ syncPc = "idle" /\ syncNotes = <<>> /\ syncBatchSize = DefaultBatchSize
    /\ syncI = 0 /\ syncTxn = <<>> /\ providerCalls = <<>> /\ pauses = 0
    /\ logs = <<>> /\ syncReturn = <<>> /\ syncError = NoError
    /\ batchOutcomes = <<>> /\ committedRows = 0
    /\ sawMismatch = FALSE /\ prevRun = "none"

SrchIdle ==
    /\ srchPc = "idle" /\ srchQuery = "" /\ srchLimit = 0 /\ srchBlob = <<>>
    /\ srchHits = <<>> /\ srchResult = <<>> /\ srchError = NoError
    /\ srchTrace = <<>> /\ srchCapAtStart = FALSE /\ srchCapDown = FALSE

Init ==
    /\ \E n \in 0..MaxNotes, c \in Corpora :
          notes = [i \in 1..n |-> NoteRow(i, c)]
    /\ vssAvailable \in BOOLEAN
    /\ embStore = {}
    /\ SyncIdle
    /\ SrchIdle
    /\ conns = {}
    /\ noteChanges = 0
    /\ runs = [t \in Threads |-> IdleRun]
    /\ dbLock = "none"
    /\ commitLog = <<>>

\* no operation of the (single-threaded) caller is in progress
CallerFree == syncPc # "running" /\ srchPc \notin {"vector", "fallback"}

\* ---------------------------------------------------------------- the sync
\* What a run starts from: the observations of the previous operation are gone.
SyncBegin(nd, b) ==
    /\ syncNotes' = nd
    /\ syncBatchSize' = b
    /\ syncI' = 0
    /\ syncTxn' = <<>>
    /\ providerCalls' = <<>>
    /\ pauses' = 0
    /\ syncReturn' = <<>>
    /\ batchOutcomes' = <<>>
    /\ committedRows' = 0
    /\ sawMismatch' = FALSE
    /\ prevRun' = IF syncPc # "done" THEN "none"
                  ELSE IF HasFailed(batchOutcomes) THEN "failed" ELSE "clean"
    /\ srchPc' = "idle" /\ srchQuery' = "" /\ srchLimit' = 0 /\ srchBlob' = <<>>
    /\ srchHits' = <<>> /\ srchResult' = <<>> /\ srchError' = NoError
    /\ srchTrace' = <<>> /\ srchCapAtStart' = FALSE /\ srchCapDown' = FALSE

\* a listing failure that is swallowed: the run goes on with no notes
AfterListingFailureSwallowed == "running"

\* Where update_all_embeddings is after its SELECT raised: nothing catches
\* the error, so the call is over and the caller has the exception.
AfterListingFailure == "raised"

\* update_all_embeddings(): list the notes, then add_embeddings_batch with
\* the default batch size. A failing SELECT raises to the caller.
UpdateAllEmbeddings ==
    /\ CallerFree
    /\ \E listing \in {"ok", "fail"} :
          IF listing = "ok"
          THEN /\ SyncBegin(NotesData(notes), DefaultBatchSize)
               /\ logs' = <<<<"info", "Updating embeddings", Len(NotesData(notes))>>>>
               /\ syncPc' = "running"
               /\ syncError' = NoError
               /\ conns' = Acquire(Acquire(conns, "listing"), "batch")
          ELSE /\ SyncBegin(<<>>, DefaultBatchSize)
               /\ logs' = <<>>
               /\ syncPc' = AfterListingFailure
               /\ syncError' = [type |-> "sqlite3.OperationalError", origin |-> "notes"]
               /\ conns' = Release(Acquire(conns, "listing"), "listing", "exception")
    /\ UNCHANGED <<notes, vssAvailable, embStore, noteChanges>>
    /\ UNCHANGED concVars

\* add_embeddings_batch(notes, batch_size) called with an explicit batch size
AddEmbeddingsBatch(b) ==
    /\ CallerFree
    /\ SyncBegin(NotesData(notes), b)
    /\ logs' = <<>>
    /\ syncPc' = "running"
    /\ syncError' = NoError
    /\ conns' = Acquire(conns, "batch")
    /\ UNCHANGED <<notes, vssAvailable, embStore, noteChanges>>
    /\ UNCHANGED concVars

\* an except clause that takes the database errors only
BatchHandlerCatchesOperationalError(excType) == excType = "sqlite3.OperationalError"

\* The except clause of the batch loop: "except Exception" takes every error.
BatchHandlerCatches(excType) == TRUE

\* an except clause without conn.rollback()
AfterBatchFailureNoRollback(txn) == txn

\* The state of the connection's transaction after the except clause ran.
AfterBatchFailure(txn) == Rollback(txn)

\* a sleep that is the last statement of the try block: skipped by a failure
PauseAfterSuccessOnly(outcome) == IF outcome = "failed" THEN 0 ELSE 1

\* "time.sleep(0.1)" follows the try statement: it runs once per iteration,
\* whatever the outcome of the batch.
PauseAfter(outcome) == 1

\* One iteration of "for i in range(0, len(notes), batch_size)".
SyncBatch ==
    /\ syncPc = "running"
    /\ syncI < Len(syncNotes)
    /\ \E batch \in {Batch(syncNotes, syncI, syncBatchSize)} :
       \E texts \in {Texts(batch)} :
       \E resp \in {"ok", "baddim", "fail"}, failAt \in 0..Len(batch) :
       (resp = "fail" => failAt = 0) /\
       \E vectors \in {ProviderResponse(texts, resp)} :
       \E ins \in {InsertLoop(syncTxn, batch, vectors, failAt, vssAvailable)} :
             LET excType == IF resp = "fail" THEN "openai.OpenAIError"
                            ELSE IF ins.raised THEN "sqlite3.OperationalError"
                            ELSE "none"
             IN  /\ providerCalls' = Append(providerCalls, texts)
                 /\ sawMismatch' = (sawMismatch \/ resp = "baddim")
                 /\ IF excType = "none"
                    THEN /\ embStore' = Commit(embStore, ins.txn)
                         /\ syncTxn' = <<>>
                         /\ committedRows' = committedRows + Len(ins.txn)
                         /\ logs' = Append(logs, <<"info", "Processed batch",
                                       BatchNumber(syncI, syncBatchSize),
                                       BatchTotal(Len(syncNotes), syncBatchSize)>>)
                         /\ batchOutcomes' = Append(batchOutcomes, "ok")
                         /\ pauses' = pauses + PauseAfter("ok")
                         /\ syncI' = syncI + syncBatchSize
                         /\ UNCHANGED <<syncPc, syncError, conns>>
                    ELSE IF BatchHandlerCatches(excType)
                    THEN /\ syncTxn' = AfterBatchFailure(IF resp = "fail" THEN syncTxn ELSE ins.txn)
                         /\ logs' = Append(logs, <<"error", "Error processing batch">>)
                         /\ batchOutcomes' = Append(batchOutcomes, "failed")
                         /\ pauses' = pauses + PauseAfter("failed")
                         /\ syncI' = syncI + syncBatchSize
                         /\ UNCHANGED <<embStore, committedRows, syncPc, syncError, conns>>
                    ELSE /\ syncTxn' = <<>>
                         /\ syncPc' = "raised"
                         /\ syncError' = [type |-> excType, origin |-> "batch"]
                         /\ batchOutcomes' = Append(batchOutcomes, "failed")
                         /\ conns' = Release(Release(conns, "batch", "exception"),
                                             "listing", "exception")
                         /\ UNCHANGED <<embStore, committedRows, logs, pauses, syncI>>
    /\ UNCHANGED <<notes, vssAvailable, syncNotes, syncBatchSize, syncReturn,
                   prevRun, noteChanges>>
    /\ UNCHANGED srchVars
    /\ UNCHANGED concVars

\* add_embeddings_batch and update_all_embeddings have no return statement.
ReturnValue == <<>>

\* The loop is over: the with-blocks close the connections (discarding an
\* open transaction) and the method returns None.
SyncReturn ==
    /\ syncPc = "running"
    /\ syncI >= Len(syncNotes)
    /\ syncPc' = "done"
    /\ syncReturn' = ReturnValue
    /\ syncTxn' = <<>>
    /\ conns' = Release(Release(conns, "batch", "return"), "listing", "return")
    /\ UNCHANGED <<notes, vssAvailable, embStore, syncNotes, syncBatchSize, syncI,
                   providerCalls, pauses, logs, syncError, batchOutcomes,
                   committedRows, sawMismatch, prevRun, noteChanges>>
    /\ UNCHANGED srchVars
    /\ UNCHANGED concVars

\* -------------------------------------------------------------- the search
\* SELECT ... ORDER BY key [LIMIT k] over the rows S: every sequence the
\* statement may produce (rows with equal keys come in either order).
RECURSIVE OrderByLimit(_, _, _)
OrderByLimit(S, key, k) ==
    IF k = 0 \/ S = {} THEN {<<>>}
    ELSE LET least == {x \in S : \A y \in S : key[x] <= key[y]}
         IN  UNION {{<<x>> \o t : t \in OrderByLimit(S \ {x}, key, k - 1)} : x \in least}

RECURSIVE SquaredDistanceFrom(_, _, _)
SquaredDistanceFrom(q, v, i) ==
    IF i > Len(q) THEN 0
    ELSE (q[i] - v[i]) * (q[i] - v[i]) + SquaredDistanceFrom(q, v, i + 1)

\* v.distance of vss_search: the L2 distance of the stored vector to the query
Distance(qblob, blob) == SquaredDistanceFrom(FromBytes(qblob), FromBytes(blob), 1)

DistanceTo(store, qblob) == [r \in store |-> Distance(qblob, r.embedding)]

\* a vector query that does not pass its limit on
VssSearchIgnoresLimit(store, qblob, limit) ==
    LET dist == DistanceTo(store, qblob)
    IN  { [j \in 1..Len(o) |-> [id |-> o[j].id, distance |-> dist[o[j]]]]
          : o \in OrderByLimit(store, dist, Cardinality(store)) }

\* vss_search(note_embeddings, ?, ?): the limit nearest rows, nearest first,
\* each as (id, distance)
VssSearch(store, qblob, limit) ==
    LET dist == DistanceTo(store, qblob)
    IN  { [j \in 1..Len(o) |-> [id |-> o[j].id, distance |-> dist[o[j]]]]
          : o \in OrderByLimit(store, dist, limit) }

SeqRange(s) == {s[j] : j \in 1..Len(s)}

\* FROM note_embeddings JOIN vss_search v ON note_embeddings.id = v.id
\* JOIN notes n ON n.id = note_embeddings.id ORDER BY v.distance ASC, each
\* row turned into a SearchResult: a joined row is a row of the table, a hit
\* of the same id and the note of that id.
\* the query with "LEFT JOIN notes": a hit without a note stays, with NULLs
SemanticRowsLeftJoin(nt, store, hits) ==
    LET joined == {p \in store \X (1..Len(hits)) : hits[p[2]].id = p[1].id}
        dist == [p \in joined |-> hits[p[2]].distance]
        title(id) == IF id \in DOMAIN nt THEN nt[id].title ELSE "NULL"
        content(id) == IF id \in DOMAIN nt THEN nt[id].content ELSE "NULL"
    IN  { [j \in 1..Len(o) |->
              [note_id |-> o[j][1].id, title |-> title(o[j][1].id),
               content |-> content(o[j][1].id), distance |-> dist[o[j]]]]
          : o \in OrderByLimit(joined, dist, Cardinality(joined)) }

SemanticRows(nt, store, hits) ==
    LET joined == {p \in store \X (1..Len(hits)) :
                      hits[p[2]].id = p[1].id /\ p[1].id \in DOMAIN nt}
        dist == [p \in joined |-> hits[p[2]].distance]
    IN  { [j \in 1..Len(o) |->
              [note_id |-> o[j][1].id, title |-> nt[o[j][1].id].title,
               content |-> nt[o[j][1].id].content, distance |-> dist[o[j]]]]
          : o \in OrderByLimit(joined, dist, Cardinality(joined)) }

\* notes_fts MATCH ?: the rows whose title or content holds the query token
FtsMatches(q, row) == q = row.title \/ q = row.content

\* The FTS5 column rank (bm25): negative, and the better the match the lower.
FtsRank(q, row) ==
    0 - ((IF q = row.title THEN 1 ELSE 0) + (IF q = row.content THEN 1 ELSE 0))

\* "rank * -1 as distance"
RankToDistance(rank) == rank * (0 - 1)

\* fallback_text_search(query, limit): the lists the SELECT may produce
FallbackTextSearch(nt, q, limit) ==
    LET rows == {id \in DOMAIN nt : FtsMatches(q, nt[id])}
        rank == [id \in rows |-> FtsRank(q, nt[id])]
    IN  { [j \in 1..Len(o) |->
              [note_id |-> o[j], title |-> nt[o[j]].title,
               content |-> nt[o[j]].content,
               distance |-> RankToDistance(rank[o[j]])]]
          : o \in OrderByLimit(rows, rank, limit) }

\* an except clause that raises its own exception e again when the fallback
\* fails
LexicalFailureReraisesOriginal == [type |-> "sqlite3.OperationalError", origin |-> "vector"]

\* What a failing SELECT of fallback_text_search raises: the method has no
\* try block, so the sqlite3 error leaves it as it is.
LexicalFailure == [type |-> "sqlite3.OperationalError", origin |-> "lexical"]

\* an except clause for another sqlite3 error class
SearchHandlerCatchesIntegrityError(excType) == excType = "sqlite3.IntegrityError"

\* "except sqlite3.OperationalError" of semantic_search
SearchHandlerCatches(excType) == excType = "sqlite3.OperationalError"

\* the arguments semantic_search hands to fallback_text_search
FallbackArgs(q, limit) == [query |-> q, limit |-> limit]

\* An exception of type excType left the try block of semantic_search.
SearchExcept(excType, origin) ==
    IF SearchHandlerCatches(excType)
    THEN /\ srchPc' = "fallback"
         /\ srchError' = NoError
    ELSE /\ srchPc' = "raised"
         /\ srchError' = [type |-> excType, origin |-> origin]

\* What a search starts from: the observations of the previous run are gone.
SyncForgotten ==
    /\ syncPc' = "idle" /\ syncNotes' = <<>> /\ syncBatchSize' = DefaultBatchSize
    /\ syncI' = 0 /\ syncTxn' = <<>> /\ providerCalls' = <<>> /\ pauses' = 0
    /\ logs' = <<>> /\ syncReturn' = <<>> /\ syncError' = NoError
    /\ batchOutcomes' = <<>> /\ committedRows' = 0
    /\ sawMismatch' = FALSE /\ prevRun' = "none"

\* semantic_search(query, limit) up to the end of _get_embedding_cached,
\* which logs a provider error and raises it again.
SemanticSearch(q, limit) ==
    /\ CallerFree
    /\ srchQuery' = q
    /\ srchLimit' = limit
    /\ srchHits' = <<>>
    /\ srchResult' = <<>>
    /\ srchCapAtStart' = vssAvailable
    /\ srchCapDown' = ~vssAvailable
    /\ \E resp \in {"ok", "baddim", "fail"} :
          IF resp = "fail"
          THEN /\ srchBlob' = <<>>
               /\ srchTrace' = <<"provider:raised">>
               /\ SearchExcept("openai.OpenAIError", "provider")
          ELSE /\ srchBlob' = ToBytes(ProviderResponse(<<q>>, resp)[1])
               /\ srchTrace' = <<"provider:ok">>
               /\ srchPc' = "vector"
               /\ srchError' = NoError
    /\ SyncForgotten
    /\ UNCHANGED <<notes, vssAvailable, embStore, conns, noteChanges>>
    /\ UNCHANGED concVars

\* The vector query of semantic_search and the list built from its rows.
SearchVector ==
    /\ srchPc = "vector"
    /\ \E io \in {"ok", "fail"} :
          IF io = "ok" /\ StoreAccepts(srchBlob, vssAvailable)
          THEN \E hits \in VssSearch(embStore, srchBlob, srchLimit) :
               \E res \in SemanticRows(notes, embStore, hits) :
                  /\ srchHits' = hits
                  /\ srchResult' = res
                  /\ srchPc' = "returned"
                  /\ srchTrace' = Append(srchTrace, "vector:ok")
                  /\ conns' = Release(Acquire(conns, "search"), "search", "return")
                  /\ UNCHANGED srchError
          ELSE /\ srchTrace' = Append(srchTrace,
                                IF ~vssAvailable THEN "vector:raised:unavailable"
                                ELSE IF io = "fail" THEN "vector:raised:io"
                                ELSE "vector:raised:dimension")
               /\ SearchExcept("sqlite3.OperationalError", "vector")
               /\ conns' = Release(Acquire(conns, "search"), "search", "exception")
               /\ UNCHANGED <<srchHits, srchResult>>
    /\ UNCHANGED <<notes, vssAvailable, embStore, srchQuery, srchLimit, srchBlob,
                   srchCapAtStart, srchCapDown, noteChanges>>
    /\ UNCHANGED syncVars
    /\ UNCHANGED concVars

\* fallback_text_search called from the except clause; nothing catches what
\* it raises.
SearchFallback ==
    /\ srchPc = "fallback"
    /\ LET args == FallbackArgs(srchQuery, srchLimit)
       IN  \E io \in {"ok", "fail"} :
             IF io = "ok"
             THEN \E res \in FallbackTextSearch(notes, args.query, args.limit) :
                    /\ srchResult' = res
                    /\ srchPc' = "returned"
                    /\ srchTrace' = Append(srchTrace, "lexical:ok")
                    /\ conns' = Release(Acquire(conns, "fallback"), "fallback", "return")
                    /\ UNCHANGED srchError
             ELSE /\ srchPc' = "raised"
                  /\ srchError' = LexicalFailure
                  /\ srchTrace' = Append(srchTrace, "lexical:raised")
                  /\ conns' = Release(Acquire(conns, "fallback"), "fallback", "exception")
                  /\ UNCHANGED srchResult
    /\ UNCHANGED <<notes, vssAvailable, embStore, srchQuery, srchLimit, srchBlob,
                   srchHits, srchCapAtStart, srchCapDown, noteChanges>>
    /\ UNCHANGED syncVars
    /\ UNCHANGED concVars

\* ---------------------------------------------------------- the environment
\* The extension or the embedding table becomes unusable, or usable again.
CapabilityChange ==
    /\ vssAvailable' = ~vssAvailable
    /\ srchCapDown' = (srchCapDown /\ srchPc \notin {"vector", "fallback"})
    /\ UNCHANGED <<notes, embStore, conns, noteChanges>>
    /\ UNCHANGED syncVars
    /\ UNCHANGED <<srchPc, srchQuery, srchLimit, srchBlob, srchHits, srchResult,
                   srchError, srchTrace, srchCapAtStart>>
    /\ UNCHANGED concVars

\* SmartNotesDB(db_path): _init_database opens a connection, tries to load
\* sqlite-vss (a failure is logged as a warning) and to create the vss0
\* table, and closes the connection: by return, or by an exception that
\* neither try block catches.
InitDatabase ==
    /\ CallerFree
    /\ \E loaded \in BOOLEAN, exit \in {"return", "exception"} :
          /\ vssAvailable' = loaded
          /\ conns' = Release(Acquire(conns, "init"), "init", exit)
    /\ SyncForgotten
    /\ srchPc' = "idle" /\ srchQuery' = "" /\ srchLimit' = 0 /\ srchBlob' = <<>>
    /\ srchHits' = <<>> /\ srchResult' = <<>> /\ srchError' = NoError
    /\ srchTrace' = <<>> /\ srchCapAtStart' = FALSE /\ srchCapDown' = FALSE
    /\ UNCHANGED <<notes, embStore, noteChanges>>
    /\ UNCHANGED concVars

\* The note manager rewrites the content of note i (table notes belongs to
\* it; the code only reads the table).
EditNote(i, c) ==
    /\ noteChanges < MaxNoteChanges
    /\ i \in DOMAIN notes
    /\ notes[i] # NoteRow(i, c)
    /\ notes' = [notes EXCEPT ![i] = NoteRow(i, c)]
    /\ noteChanges' = noteChanges + 1
    /\ UNCHANGED <<vssAvailable, embStore, conns>>
    /\ UNCHANGED syncVars
    /\ UNCHANGED srchVars
    /\ UNCHANGED concVars

\* The note manager deletes note i. Nothing in the code deletes the row of
\* note_embeddings with it (no trigger, no foreign key in the schema).
DeleteNote(i) ==
    /\ noteChanges < MaxNoteChanges
    /\ i \in DOMAIN notes
    /\ notes' = [j \in (DOMAIN notes) \ {i} |-> notes[j]]
    /\ noteChanges' = noteChanges + 1
    /\ UNCHANGED <<vssAvailable, embStore, conns>>
    /\ UNCHANGED syncVars
    /\ UNCHANGED srchVars
    /\ UNCHANGED concVars

Next ==
    \/ UpdateAllEmbeddings
    \/ \E b \in BatchSizes : AddEmbeddingsBatch(b)
    \/ SyncBatch
    \/ SyncReturn
    \/ \E q \in Queries, limit \in Limits : SemanticSearch(q, limit)
    \/ SearchVector
    \/ SearchFallback
    \/ CapabilityChange
    \/ InitDatabase

Spec == Init /\ [][Next]_vars

SyncNext ==
    \/ UpdateAllEmbeddings
    \/ \E b \in BatchSizes : AddEmbeddingsBatch(b)
    \/ SyncBatch
    \/ SyncReturn
    \/ CapabilityChange

\* The sync on its own (no search between the runs). A run that was started
\* goes on: the calls of the loop are blocking calls that return or raise, and
\* nothing else keeps the thread from its next step.
SyncFairSpec ==
    Init /\ [][SyncNext]_vars /\ WF_vars(SyncBatch) /\ WF_vars(SyncReturn)

\* The program beside a note manager that edits and deletes notes.
NoteInit == Init /\ Cardinality(DOMAIN notes) <= FewNotes

NoteNext ==
    \/ UpdateAllEmbeddings
    \/ AddEmbeddingsBatch(TinyBatch)
    \/ SyncBatch
    \/ SyncReturn
    \/ \E q \in Queries, limit \in Limits : SemanticSearch(q, limit)
    \/ SearchVector
    \/ SearchFallback
    \/ CapabilityChange
    \/ \E i \in NoteIds, c \in Corpora : EditNote(i, c)
    \/ \E i \in NoteIds : DeleteNote(i)

NoteSpec == NoteInit /\ [][NoteNext]_vars

\* ------------------------------------------------- two runs at the same time
\* Two threads, each with its own connection (get_connection connects anew on
\* every call), run add_embeddings_batch over the list each of them read.

\* a database without a write lock: every connection may write at any time
CanWriteUnlocked(lock, t) == TRUE

\* SQLite lets a connection write while no other connection has the write
\* lock (taken by the first INSERT of a transaction, held up to its commit or
\* rollback).
CanWrite(lock, t) == lock \in {"none", t}

\* the run of thread t after a batch ended with outcome o: the transaction is
\* over, "i" moves on to the next batch
RunAfterBatch(run, o) ==
    [run EXCEPT !.pc = IF run.i + run.b < Len(run.notes) THEN "call" ELSE "done",
                !.i = run.i + run.b,
                !.vectors = <<>>,
                !.txn = <<>>,
                !.outcomes = Append(run.outcomes, o)]

\* Thread t calls add_embeddings_batch with the notes as they are now.
ConcStart(t, b) ==
    /\ runs[t].pc = "idle"
    /\ \E nd \in {NotesData(notes)} :
          runs' = [runs EXCEPT ![t] =
                      [IdleRun EXCEPT !.pc = IF nd = <<>> THEN "done" ELSE "call",
                                      !.notes = nd, !.b = b]]
    /\ UNCHANGED <<notes, vssAvailable, embStore, conns, noteChanges, dbLock, commitLog>>
    /\ UNCHANGED syncVars
    /\ UNCHANGED srchVars

\* Thread t's provider call for its next batch: the vectors, or an exception
\* that the handler of the batch catches.
ConcCall(t) ==
    /\ runs[t].pc = "call"
    /\ \E resp \in {"ok", "fail"} :
          IF resp = "ok"
          THEN \E vs \in {ProviderResponse(
                              Texts(Batch(runs[t].notes, runs[t].i, runs[t].b)), "ok")} :
                  runs' = [runs EXCEPT ![t].pc = "insert", ![t].vectors = vs]
          ELSE runs' = [runs EXCEPT ![t] = RunAfterBatch(runs[t], "failed")]
    /\ UNCHANGED <<notes, vssAvailable, embStore, conns, noteChanges, dbLock, commitLog>>
    /\ UNCHANGED syncVars
    /\ UNCHANGED srchVars

\* Thread t's next INSERT OR REPLACE of the batch. While the other connection
\* has the write lock the statement waits (no step), or gives up after the
\* connection's timeout with "database is locked"; that error and the store's
\* rejection of a row end the batch in the handler: log, rollback.
ConcInsert(t) ==
    /\ runs[t].pc = "insert"
    /\ Len(runs[t].txn) < Len(runs[t].vectors)
    /\ \E batch \in {Batch(runs[t].notes, runs[t].i, runs[t].b)} :
       \E j \in {Len(runs[t].txn) + 1} :
       \E blob \in {ToBytes(runs[t].vectors[j])} :
          \/ /\ CanWrite(dbLock, t)
             /\ StoreAccepts(blob, vssAvailable)
             /\ dbLock' = t
             /\ runs' = [runs EXCEPT ![t].txn = Append(@, <<batch[j][1], blob>>)]
          \/ /\ ~(CanWrite(dbLock, t) /\ StoreAccepts(blob, vssAvailable))
             /\ dbLock' = IF dbLock = t THEN "none" ELSE dbLock
             /\ runs' = [runs EXCEPT ![t] = RunAfterBatch(runs[t], "failed")]
    /\ UNCHANGED <<notes, vssAvailable, embStore, conns, noteChanges, commitLog>>
    /\ UNCHANGED syncVars
    /\ UNCHANGED srchVars

\* Thread t's conn.commit() after the last insert of the batch: the rows of
\* the transaction become the rows of the table at once, the lock is free.
ConcCommit(t) ==
    /\ runs[t].pc = "insert"
    /\ Len(runs[t].txn) = Len(runs[t].vectors)
    /\ embStore' = Commit(embStore, runs[t].txn)
    /\ commitLog' = Append(commitLog, [thread |-> t, txn |-> runs[t].txn])
    /\ dbLock' = "none"
    /\ runs' = [runs EXCEPT ![t] = RunAfterBatch(runs[t], "ok")]
    /\ UNCHANGED <<notes, vssAvailable, conns, noteChanges>>
    /\ UNCHANGED syncVars
    /\ UNCHANGED srchVars

ConcNext ==
    \/ \E t \in Threads, b \in BatchSizes : ConcStart(t, b)
    \/ \E t \in Threads : ConcCall(t)
    \/ \E t \in Threads : ConcInsert(t)
    \/ \E t \in Threads : ConcCommit(t)
    \/ \E i \in NoteIds, c \in Corpora : EditNote(i, c)

ConcSpec == NoteInit /\ [][ConcNext]_vars

TypeOK ==
    /\ DOMAIN notes \subseteq NoteIds
    /\ vssAvailable \in BOOLEAN
    /\ StoreIds(embStore) \subseteq NoteIds
    /\ syncPc \in {"idle", "running", "done", "raised"}
    /\ srchPc \in {"idle", "vector", "fallback", "returned", "raised"}

\* ------------------------------------------------------- search properties
Last(s) == s[Len(s)]

SearchOver == srchPc \in {"returned", "raised"}

ProviderFailed == srchTrace # <<>> /\ srchTrace[1] = "provider:raised"

VectorQueryRaised ==
    Len(srchTrace) >= 2 /\
    srchTrace[2] \in {"vector:raised:unavailable", "vector:raised:io",
                      "vector:raised:dimension"}

\* the search returned a list that fallback_text_search produces for the
\* same query and limit
ReturnedLexical ==
    /\ srchPc = "returned"
    /\ Last(srchTrace) = "lexical:ok"
    /\ srchResult \in FallbackTextSearch(notes, srchQuery, srchLimit)

\* the search ended as a direct call of fallback_text_search ends: with its
\* list, or with the error it raised
EndedAsLexical == ReturnedLexical \/ (srchPc = "raised" /\ srchError.origin = "lexical")

NonDecreasing(res) ==
    \A j \in 1..(Len(res) - 1) : res[j].distance <= res[j + 1].distance

NoDuplicateIds(res) ==
    \A j, k \in 1..Len(res) : res[j].note_id = res[k].note_id => j = k

\* C1: whenever the provider call for the query string failed, the search
\* does not raise the provider's error to the caller: it goes to the lexical
\* fallback and ends with what the lexical search gives for the same query
\* and limit.
C1_ProviderFailureFallsBack ==
    ProviderFailed =>
        /\ srchPc \in {"fallback", "returned", "raised"}
        /\ srchError.origin # "provider"
        /\ SearchOver => EndedAsLexical

\* C2: whenever the nearest-neighbour capability was unavailable all through
\* a search, the search ends as the lexical search called directly with the
\* same query and limit: same ids, same order, same mapped scores.
C2_UnavailableStoreIsLexical ==
    (srchCapDown /\ SearchOver) => EndedAsLexical

\* C3: whenever the nearest-neighbour query raised at call time (capability
\* lost after the search began, I/O failure, rejected query vector), the
\* search goes on to the lexical fallback and ends with its outcome; the
\* vector store's error never reaches the caller.
C3_VectorFailureFallsBack ==
    /\ srchError.origin # "vector"
    /\ VectorQueryRaised =>
          /\ srchPc \in {"fallback", "returned", "raised"}
          /\ SearchOver => EndedAsLexical

\* C3 witness: the capability was usable when the search was called, was gone
\* when the vector query ran, and the caller got the lexical list.
C3_Witness ==
    /\ srchCapAtStart
    /\ srchTrace = <<"provider:ok", "vector:raised:unavailable", "lexical:ok">>
    /\ srchPc = "returned"
    /\ Len(srchResult) >= 2

\* C4 as stated: when the semantic path failed and the lexical fallback raised
\* too, the caller gets a RetrievalError and nothing is attempted after it.
C4_RaisesRetrievalError ==
    (srchTrace # <<>> /\ Last(srchTrace) = "lexical:raised") =>
        /\ srchPc = "raised"
        /\ srchError.type = "RetrievalError"

\* C4 amended: when the lexical fallback raised, the caller gets that very
\* sqlite3.OperationalError of the lexical query (no RetrievalError wraps
\* it), and the failed lexical query is the search's last call: it was made
\* once and nothing was attempted after it.
C4_RaisesLexicalError ==
    (srchTrace # <<>> /\ \E j \in 1..Len(srchTrace) : srchTrace[j] = "lexical:raised") =>
        /\ srchPc = "raised"
        /\ srchError = [type |-> "sqlite3.OperationalError", origin |-> "lexical"]
        /\ Last(srchTrace) = "lexical:raised"
        /\ \A j \in 1..(Len(srchTrace) - 1) :
              srchTrace[j] \notin {"lexical:ok", "lexical:raised"}

\* C4 witness: the vector query raised and then the lexical query raised.
C4_Witness ==
    /\ srchPc = "raised"
    /\ VectorQueryRaised
    /\ Last(srchTrace) = "lexical:raised"

\* C5: on the lexical fallback path the returned list is most-relevant first
\* and its scores are non-decreasing along the list (the best match has the
\* numerically lowest score).
C5_LexicalScoresAscending ==
    (srchPc = "returned" /\ Last(srchTrace) = "lexical:ok") =>
        /\ NonDecreasing(srchResult)
        /\ \A j \in 1..(Len(srchResult) - 1) :
              FtsRank(srchQuery, notes[srchResult[j].note_id])
                  <= FtsRank(srchQuery, notes[srchResult[j + 1].note_id])

\* the blob stored under id
Lookup(tbl, id) == (CHOOSE r \in tbl : r.id = id).embedding

\* position of id in the sequence of hits
HitIndex(id) == CHOOSE j \in 1..Len(srchHits) : srchHits[j].id = id

CeilDiv(n, b) == (n + b - 1) \div b

\* the positions in syncNotes of the k-th batch of the run
BatchPositions(k) ==
    (((k - 1) * syncBatchSize) + 1)..Min(k * syncBatchSize, Len(syncNotes))

FailedBatches == Cardinality({k \in 1..Len(batchOutcomes) : batchOutcomes[k] = "failed"})

ErrorLines ==
    Cardinality({j \in 1..Len(logs) : logs[j][1] = "error"})

\* the batch numbers of the "Processed batch k/N" lines
ProcessedLines ==
    {j \in 1..Len(logs) : logs[j][1] = "info" /\ logs[j][2] = "Processed batch"}

RECURSIVE SumOver(_, _)
SumOver(S, f) ==
    IF S = {} THEN 0
    ELSE LET x == CHOOSE y \in S : TRUE IN f[x] + SumOver(S \ {x}, f)

\* the number of notes in the batches the log reports as processed
ProcessedNotes ==
    SumOver(ProcessedLines,
            [j \in ProcessedLines |-> Cardinality(BatchPositions(logs[j][3]))])

RECURSIVE Flatten(_)
Flatten(ss) == IF ss = <<>> THEN <<>> ELSE Head(ss) \o Flatten(Tail(ss))

\* C7: a failing batch (provider call or store write) never ends the run and
\* never raises to the caller: the only error a run raises is the one of the
\* note listing, a finished run has attempted every batch, and every batch
\* that succeeded, before or after a failed one, has its embeddings in the
\* store.
C7_BatchFailureTolerated ==
    /\ syncPc = "raised" => syncError.origin = "notes"
    /\ syncPc = "done" =>
          Len(batchOutcomes) = CeilDiv(Len(syncNotes), syncBatchSize)
    /\ \A k \in 1..Len(batchOutcomes) :
          batchOutcomes[k] = "ok" =>
              \A j \in BatchPositions(k) :
                  Row(syncNotes[j][1],
                      ToBytes(Embed(syncNotes[j][2], EmbeddingDimension))) \in embStore

\* C7 witness: a finished run whose second batch failed between two batches
\* that succeeded.
C7_Witness ==
    /\ syncPc = "done"
    /\ batchOutcomes = <<"ok", "failed", "ok">>
    /\ syncError = NoError

\* C8 as stated: a finished run returns to its caller the number of notes it
\* embedded and the number of batches that failed.
C8_ReturnsCounts ==
    syncPc = "done" => syncReturn = <<committedRows, FailedBatches>>

\* C8 amended: a finished run returns nothing (None) to its caller; the counts
\* are only in its log, which has one "Processed batch" line per batch that
\* succeeded and one "Error processing batch" line per batch that failed, and
\* these agree with the outcome: the notes of the batches logged as processed
\* are as many as the rows the run committed. With 12 notes, batch size 10
\* and the second batch failing: one batch of 10 notes processed, one error.
C8_CountsOnlyLogged ==
    syncPc = "done" =>
        /\ syncReturn = <<>>
        /\ ErrorLines = FailedBatches
        /\ Cardinality(ProcessedLines) + ErrorLines = Len(batchOutcomes)
        /\ ProcessedNotes = committedRows
        /\ (Len(syncNotes) = 12 /\ syncBatchSize = 10 /\ batchOutcomes = <<"ok", "failed">>) =>
              (committedRows = 10 /\ ErrorLines = 1)

\* C8 witness: the run over 12 notes with batch size 10 whose second batch
\* failed.
C8_Witness ==
    /\ syncPc = "done"
    /\ Len(syncNotes) = 12
    /\ syncBatchSize = 10
    /\ batchOutcomes = <<"ok", "failed">>
    /\ committedRows = 10

C9_CallsAreChunks ==
    /\ syncPc = "running" => Len(providerCalls) * syncBatchSize = syncI
    /\ Len(providerCalls) = Len(batchOutcomes)
    /\ syncPc = "done" =>
          /\ Len(providerCalls) = CeilDiv(Len(syncNotes), syncBatchSize)
          /\ Flatten(providerCalls) = Texts(syncNotes)
          /\ \A k \in 1..(Len(providerCalls) - 1) :
                Len(providerCalls[k]) = syncBatchSize
          /\ providerCalls # <<>> =>
                Len(Last(providerCalls)) \in 1..syncBatchSize
          /\ (Len(syncNotes) = 12 /\ syncBatchSize = 10) =>
                (Len(providerCalls) = 2 /\ Len(providerCalls[1]) = 10
                                        /\ Len(providerCalls[2]) = 2)

\* C9: a run over n notes with batch size b makes exactly ceil(n/b) provider
\* calls, one per batch whether it succeeds or fails; the calls carry the
\* consecutive chunks of the note list, each but the last of b texts (12 notes
\* and b = 10: calls of 10 and 2 texts); and every run that is started ends.
C9_OneCallPerBatch ==
    /\ []C9_CallsAreChunks
    /\ (syncPc = "running") ~> (syncPc = "done")

\* C9 witness: a finished run with a failed batch that made three calls, the
\* last one shorter than the batch size.
C9_Witness ==
    /\ syncPc = "done"
    /\ Len(providerCalls) = 3
    /\ Len(providerCalls[3]) < syncBatchSize
    /\ FailedBatches >= 1

\* C10: after a run that finished with no failed batch, the store has an
\* embedding for every note id of the list the run read, and every stored
\* vector has the configured dimension.
C10_CleanRunCoversAllNotes ==
    /\ \A r \in embStore :
          Len(FromBytes(r.embedding)) = EmbeddingDimension
    /\ (syncPc = "done" /\ FailedBatches = 0) =>
          \A j \in 1..Len(syncNotes) : syncNotes[j][1] \in StoreIds(embStore)

\* C10 witness: a finished run of two batches, none failed, over 12 notes.
C10_Witness ==
    /\ syncPc = "done"
    /\ FailedBatches = 0
    /\ Len(syncNotes) = 12
    /\ Len(batchOutcomes) = 2
    /\ Cardinality(embStore) = 12

\* ---------------------------------------------------------- store properties
\* the blob the sync writes for a note row
FreshBlob(row) == ToBytes(Embed(NoteText(row), EmbeddingDimension))

\* C11: writing the same (note id, vector) a second time leaves the store as
\* the first write left it, and whatever runs there were, no two records of
\* the store have the same note id.
C11_UpsertKeyedByNoteId ==
    /\ \A r1 \in embStore, r2 \in embStore : r1.id = r2.id => r1 = r2
    /\ \A id \in DOMAIN notes, c \in Corpora :
          LET blob == FreshBlob(NoteRow(id, c))
              once == InsertOrReplace(embStore, id, blob)
          IN  /\ InsertOrReplace(once, id, blob) = once
              /\ Cardinality({r \in once : r.id = id}) = 1

\* two clean runs in a row over the same notes: every (note id, vector) was
\* written twice, and there is one record per note
C11_Witness ==
    /\ syncPc = "done" /\ ~HasFailed(batchOutcomes)
    /\ prevRun = "clean" /\ noteChanges = 0
    /\ committedRows = FewNotes
    /\ Cardinality(embStore) = FewNotes

\* C12: every run works on the whole note list, the notes of the batches that
\* failed in the run before included; and a run that ends with no failed
\* batch leaves, for every note it listed, exactly the record a first run
\* without failures would have written, whatever failed before. While the
\* notes are as they were, that is the whole store: one fresh record per note.
C12_CleanRerunRepairs ==
    /\ (syncPc = "running" /\ syncI = 0 /\ noteChanges = 0) =>
          syncNotes = NotesData(notes)
    /\ syncPc = "done" => Flatten(providerCalls) = Texts(syncNotes)
    /\ (syncPc = "done" /\ ~HasFailed(batchOutcomes)) =>
          /\ \A j \in 1..Len(syncNotes) :
                {r \in embStore : r.id = syncNotes[j][1]}
                    = {Row(syncNotes[j][1],
                           ToBytes(Embed(syncNotes[j][2], EmbeddingDimension)))}
          /\ noteChanges = 0 =>
                embStore = {Row(id, FreshBlob(notes[id])) : id \in DOMAIN notes}

\* C12 witness: a run of two batches, none failed, right after a run over the
\* same notes that had a failed batch.
C12_Witness ==
    /\ syncPc = "done" /\ ~HasFailed(batchOutcomes)
    /\ prevRun = "failed" /\ noteChanges = 0
    /\ Len(batchOutcomes) = 2
    /\ Cardinality(embStore) = Len(syncNotes)

\* the run's SELECT over table notes raised
ListingFailed == syncError.origin = "notes"

\* C13: when the listing of the notes fails, update_all_embeddings is over
\* with that error raised to its caller, it has made no provider call and
\* attempted no batch, and the step leaves every record of the store as it
\* was.
C13_ListingFailureStopsRun ==
    /\ [](ListingFailed =>
            /\ syncPc = "raised"
            /\ syncError.type = "sqlite3.OperationalError"
            /\ providerCalls = <<>>
            /\ batchOutcomes = <<>>
            /\ committedRows = 0
            /\ syncTxn = <<>>)
    /\ [][ListingFailed' => embStore' = embStore]_vars

\* C13 witness: the listing failed over a store that has the records of an
\* earlier run.
C13_Witness ==
    /\ ListingFailed
    /\ syncPc = "raised"
    /\ Cardinality(embStore) = MaxNotes

\* C14: no record of the store has a vector of another length than the
\* configured dimension, and a run that got vectors of another length from
\* the provider has stopped with the error raised to its caller.
C14_MismatchIsFatal ==
    /\ \A r \in embStore : Len(r.embedding) = 4 * EmbeddingDimension
    /\ sawMismatch => (syncPc = "raised" /\ syncError.origin = "batch")

\* ----------------------------------------------------- connection properties
\* C15: when no operation is in progress (the last one returned or raised),
\* no connection is open; the only connections open in between are the ones
\* of a run that is in its loop: the one of add_embeddings_batch and, under
\* it, the one update_all_embeddings listed the notes with.
C15_ConnectionsReleased ==
    /\ syncPc # "running" => conns = {}
    /\ syncPc = "running" => ("batch" \in conns /\ conns \subseteq {"listing", "batch"})
    /\ (syncPc = "running" /\ logs # <<>> /\ logs[1][2] = "Updating embeddings") =>
          conns = {"listing", "batch"}

\* C15 witness: update_all_embeddings has returned after a run with a failed
\* batch, during which it held two connections.
C15_Witness ==
    /\ syncPc = "done"
    /\ logs # <<>> /\ logs[1][2] = "Updating embeddings"
    /\ HasFailed(batchOutcomes)
    /\ conns = {}

\* ---------------------------------------------------- concurrency properties
\* the commits, in order, that wrote a row for note id
CommitsOf(id) ==
    {k \in 1..Len(commitLog) :
        \E j \in 1..Len(commitLog[k].txn) : commitLog[k].txn[j][1] = id}

\* the blob that commit k wrote for note id (its last statement for the id)
BlobOf(k, id) ==
    LET txn == commitLog[k].txn
        j == CHOOSE j \in 1..Len(txn) :
                 /\ txn[j][1] = id
                 /\ \A j2 \in (j + 1)..Len(txn) : txn[j2][1] # id
    IN  txn[j][2]

MaxOf(S) == CHOOSE x \in S : \A y \in S : y <= x

BatchEnds(o) ==
    /\ Len(batchOutcomes') = Len(batchOutcomes) + 1
    /\ Last(batchOutcomes') = o

\* C17: a batch that fails, at the provider call or at any of its inserts,
\* leaves every record of the store as it was (those its notes had before
\* the run and those of the earlier batches) and nothing pending; a batch
\* that succeeds writes the records of its own notes and no other; and
\* nothing else in a run changes the store.
C17_BatchIsAtomic ==
    [][ /\ BatchEnds("failed") => (embStore' = embStore /\ syncTxn' = <<>>)
        /\ BatchEnds("ok") =>
              LET ids == {syncNotes[j][1] : j \in BatchPositions(Len(batchOutcomes'))}
              IN  /\ {r \in embStore' : r.id \notin ids} = {r \in embStore : r.id \notin ids}
                  /\ ids \subseteq StoreIds(embStore')
                  /\ syncTxn' = <<>>
        /\ embStore' # embStore => BatchEnds("ok")
      ]_vars

\* C17 witness: a run whose second batch failed has ended; the store has the
\* records of the first and third batch and none of the second.
C17_Witness ==
    /\ syncPc = "done"
    /\ batchOutcomes = <<"ok", "failed", "ok">>
    /\ StoreIds(embStore) =
          {syncNotes[j][1] : j \in BatchPositions(1) \cup BatchPositions(3)}

\* C18: in a run there are as many pauses as provider calls and as batches
\* ended, whatever their outcomes: each provider call starts when every
\* earlier call of the run has had its pause, and the iteration it belongs
\* to ends with one more pause, after a success and after a failure alike.
C18_PauseAfterEveryBatch ==
    /\ [](pauses = Len(providerCalls) /\ pauses = Len(batchOutcomes))
    /\ [][Len(providerCalls') = Len(providerCalls) + 1 =>
             (pauses = Len(providerCalls) /\ pauses' = pauses + 1)]_vars

\* C18 witness: a run of three batches, the first two failed, with its three
\* pauses.
C18_Witness ==
    /\ syncPc = "done"
    /\ batchOutcomes = <<"failed", "failed", "ok">>
    /\ Len(providerCalls) = 3
    /\ pauses = 3

\* ------------------------------------------------------ orphaned embeddings
\* the ids of the nearest-neighbour hits of the search
HitIds(hits) == {hits[j].id : j \in 1..Len(hits)}

\* C19: when the vector query returns, its results are the hits whose note
\* exists, each with the title and the content of that note, and the hits
\* whose note is gone are left out: the search ends there, with no error and
\* no lexical search.
C19_OrphanedHitDropped ==
    [][(srchPc = "vector" /\ srchPc' = "returned") =>
          /\ srchError' = NoError
          /\ srchTrace' = <<"provider:ok", "vector:ok">>
          /\ {srchResult'[j].note_id : j \in 1..Len(srchResult')}
                 = HitIds(srchHits') \cap DOMAIN notes
          /\ Len(srchResult') = Cardinality(HitIds(srchHits') \cap DOMAIN notes)
          /\ \A j \in 1..Len(srchResult') :
                /\ srchResult'[j].note_id \in DOMAIN notes
                /\ srchResult'[j].title = notes[srchResult'[j].note_id].title
                /\ srchResult'[j].content = notes[srchResult'[j].note_id].content
      ]_vars

\* C19 witness: a search returned from the vector query with fewer results
\* than hits, a hit's note having been deleted.
C19_Witness ==
    /\ srchPc = "returned"
    /\ srchTrace = <<"provider:ok", "vector:ok">>
    /\ srchResult # <<>>
    /\ Len(srchResult) < Len(srchHits)
    /\ \E j \in 1..Len(srchHits) : srchHits[j].id \notin DOMAIN notes

\* ---------------------------------------------------------- batch contents
\* C20: for every batch of the run that succeeded, the j-th text of its
\* provider call is the text of the j-th note of the batch, which is that
\* note's title, one space and its content, and the record stored under that
\* note's id is the j-th vector of the provider's response to the call.
C20_VectorOfOwnText ==
    \A k \in 1..Len(batchOutcomes) :
        batchOutcomes[k] = "ok" =>
            \A j \in 1..Len(providerCalls[k]) :
                LET p == ((k - 1) * syncBatchSize) + j
                    id == syncNotes[p][1]
                IN  /\ Len(providerCalls[k]) = Cardinality(BatchPositions(k))
                    /\ providerCalls[k][j] = syncNotes[p][2]
                    /\ providerCalls[k][j]
                          = notes[id].title \o " " \o notes[id].content
                    /\ {r \in embStore : r.id = id}
                          = {Row(id, ToBytes(ProviderResponse(providerCalls[k], "ok")[j]))}

\* C20 witness: a batch of ten notes succeeded; the first two notes have
\* different texts and each has the record of its own text.
C20_Witness ==
    /\ syncPc = "done"
    /\ batchOutcomes = <<"ok", "failed">>
    /\ Len(providerCalls[1]) = 10
    /\ providerCalls[1][1] # providerCalls[1][2]
    /\ Row(1, FreshBlob(notes[1])) \in embStore
    /\ Row(2, FreshBlob(notes[2])) \in embStore
    /\ FreshBlob(notes[1]) # FreshBlob(notes[2])

====
